---- MODULE Spec2Model ----
(***************************************************************************)
(* Job lifecycle of the KaamSetu backend (src/src/controllers/             *)
(* jobController.js): the Job and Review collections, the request handlers *)
(* createJob, acceptJob, startJob, getCompletionOTP, completeJob,          *)
(* cancelJob, cancelJobByWorker, rateWorker and rateClient, and the role   *)
(* check of the router in front of them; and the OTP collection with the   *)
(* handlers that use it: register and verifyOTP (authController.js),       *)
(* sendUpdateEmailOtp, sendUpdatePhoneOtp, verifyEmailOtp and              *)
(* verifyPhoneOtp (client.js).                                             *)
(*                                                                         *)
(* Every handler is an async function: between two awaited database        *)
(* operations other requests run.  One action of the model is one database *)
(* operation of one request together with the synchronous code that        *)
(* follows it up to the next await (or up to the response).  The requests  *)
(* in flight are kept in the bag inflight; a request that has answered is  *)
(* removed from it and its response is left in ret for one step.           *)
(*                                                                         *)
(* job.save() of a loaded mongoose document writes the paths assigned      *)
(* since the load, filtered by _id alone, and throws (-> 500) when the     *)
(* document is gone.                                                       *)
(***************************************************************************)
EXTENDS Integers, FiniteSets, Bags, TLC

\* ---------------------------------------------------------------- bounds

MaxJobs == 2        \* job documents in the specifications of the claim step
LifecycleJobs == 1  \* job documents in the specification of the whole lifecycle
MaxInflight == 2    \* requests in flight at once
MaxCount == 2       \* the response counters saturate here
MaxReviews == 2     \* Review documents, stored or about to be
MaxOtps == 3        \* OTP documents ever stored
MaxWrong == 3       \* the count of 'Incorrect OTP' answers saturates here

\* ------------------------------------------------------------ the actors

Workers == {"wA", "wB"}
Clients == {"c1", "c2"}
Skills == {"plumber", "electrician"}
Codes == {"482913", "771204"}
NoWorker == "null"
NoCode == "null"
JobIds == 1 .. MaxJobs
OtpIds == 1 .. MaxOtps
Lifecycle == 1 .. LifecycleJobs

\* the address register is called for, and the values the clients ask to
\* change their email or phone to
RegEmail == "r@k.in"
Values == {"n@k.in", "9000000009"}
kind(v) == IF v = "n@k.in" THEN "email" ELSE "phone"
firstContact ==
    [c \in Clients |->
        IF c = "c1" THEN [email |-> "a@k.in", phone |-> "9000000001"]
                    ELSE [email |-> "b@k.in", phone |-> "9000000002"]]
NoOtp == [state |-> "none", data |-> "none", code |-> NoCode, attempts |-> 0]

\* Worker.skills of the two registered workers
skills(w) == IF w = "wA" THEN {"plumber", "electrician"} ELSE {"electrician"}

VARIABLES
    \* the program
    jobs,       \* JobIds -> the Job document (state "none" before creation,
                \*           "stored" while in the collection, "deleted" after)
    inflight,   \* bag of the requests between two awaits
    ret,        \* the response sent by the last step, NoRet when it sent none
    \* what an observer of the responses has seen
    ok200,      \* op -> job -> number of 200 responses so far (saturating)
    lastCode,   \* job -> the code the latest getCompletionOTP 200 returned
    acceptLog,  \* job -> the acceptJob responses: how many 200, to whom the
                \*        last one went, and the workers that got any response
    \* the program, again
    reviews,    \* bag of the documents of the Review collection
    completedJobs,  \* worker -> the completedJobs value stored with the worker
    otps,       \* OtpIds -> the document of the OTP collection with that _id
    account,    \* the user document register created for RegEmail
    contact,    \* client -> the email and the phone stored with the client
    strictQuery,    \* mongoose's strictQuery option of the build, "unset"
                    \* until the first query that depends on it has run
    \* what an observer has seen, again
    codeBy,     \* job -> who had the job's completion code generated, and
                \*        whether the job left that worker's active period since
    holding,    \* worker -> the jobs the worker claimed that have not been
                \*           completed, released, rolled back or deleted since
    wrong,      \* OTP _id -> verifyOTP calls answered 'Incorrect OTP' on it
    issued      \* value -> the code the latest send...Otp 200 issued for it

vars == <<jobs, inflight, ret, ok200, lastCode, acceptLog, reviews, completedJobs,
          otps, account, contact, strictQuery, codeBy, holding, wrong, issued>>

NoRet == [op |-> "none", actor |-> "none", job |-> 0, code |-> 0,
          message |-> "none", otp |-> NoCode, value |-> "none"]
Ret(op, actor, j, code, msg) ==
    [op |-> op, actor |-> actor, job |-> j, code |-> code, message |-> msg, otp |-> NoCode,
     value |-> "none"]

NoJob == [state |-> "none", clientId |-> "none", workerId |-> NoWorker,
          status |-> "posted", completionOTP |-> NoCode, skill |-> "none"]

Stored(j) == jobs[j].state = "stored"

Req(op, actor, j, pc, otp, w) ==
    [op |-> op, actor |-> actor, job |-> j, pc |-> pc, otp |-> otp, snapWorker |-> w,
     snapClient |-> "none", rating |-> "missing", count |-> 0, value |-> "none"]

Add(r) == inflight (+) SetToBag({r})
Del(r) == inflight (-) SetToBag({r})
Move(r, pc) == Del(r) (+) SetToBag({[r EXCEPT !.pc = pc]})
CanStart == BagCardinality(inflight) < MaxInflight
Pending(op, pc) == {r \in BagToSet(inflight) : r.op = op /\ r.pc = pc}

Respond(op, actor, j, code, msg) == ret' = Ret(op, actor, j, code, msg)
Silent == ret' = NoRet

\* the keys of the JSON body of an error response: { success: false, message },
\* and conflict: true with acceptJob's 409
errorBody(r) ==
    IF r.op = "accept" /\ r.code = 409
    THEN {"success", "message", "conflict"}
    ELSE {"success", "message"}

Counted == {"complete", "cancel"}

\* the accounts controllers leave the jobs alone, the job controller the accounts
AccountsIdle == UNCHANGED <<otps, account, contact, strictQuery, wrong, issued>>
JobsIdle ==
    UNCHANGED <<jobs, ok200, lastCode, acceptLog, reviews, completedJobs, codeBy,
                holding>>
NoOrigin == [worker |-> NoWorker, stale |-> FALSE]
NoLog == [n200 |-> 0, winner |-> NoWorker, answered |-> {}]

Init ==
    /\ jobs = [j \in JobIds |-> NoJob]
    /\ inflight = EmptyBag
    /\ ret = NoRet
    /\ ok200 = [op \in Counted |-> [j \in JobIds |-> 0]]
    /\ lastCode = [j \in JobIds |-> NoCode]
    /\ acceptLog = [j \in JobIds |-> NoLog]
    /\ reviews = EmptyBag
    /\ completedJobs = [w \in Workers |-> 0]
    /\ otps = [i \in OtpIds |-> NoOtp]
    /\ account = "none"
    /\ contact = firstContact
    /\ strictQuery = "unset"
    /\ codeBy = [j \in JobIds |-> NoOrigin]
    /\ holding = [w \in Workers |-> {}]
    /\ wrong = [i \in OtpIds |-> 0]
    /\ issued = [v \in Values |-> NoCode]

\* ------------------------------------------------------------- createJob

\* the _id of the new document: the first one not used yet
NextId(J) ==
    CHOOSE j \in J : jobs[j].state = "none" /\ \A k \in 1 .. j - 1 : jobs[k].state # "none"

\* new Job({ clientId, title, description, skill, urgency, status: 'posted', address })
newJob(c, skill) ==
    [state |-> "stored", clientId |-> c, workerId |-> NoWorker,
     status |-> "posted", completionOTP |-> NoCode, skill |-> skill]

CreateJob(J, c, skill, title, description, address) ==
    /\ \E j \in J : jobs[j].state = "none"
    /\ UNCHANGED inflight
    /\ IF skill = "none" \/ ~title \/ ~description
       THEN /\ Respond("create", c, 0, 400, "Skill, title, and description are required")
            /\ UNCHANGED jobs
       ELSE IF address = "none" \/ address = "empty"
       THEN /\ Respond("create", c, 0, 400, "Address is required for job posting")
            /\ UNCHANGED jobs
       ELSE /\ jobs' = [jobs EXCEPT ![NextId(J)] = newJob(c, skill)]
            /\ Respond("create", c, NextId(J), 200, "Job posted successfully")

\* ------------------------------------------- createJob, await by await

\* req.body.skill: absent, one of SKILLS, or a text that is not in SKILLS
SkillForms == Skills \cup {"none", "dancer"}

\* req.body.address: absent, a string that is no JSON, {}, { city },
\* { location: { lat, lon } }, { location: {} }
AddressForms == {"none", "unparsable", "empty", "city", "coords", "emptyLocation"}

\* !address || (!address.city && !address.location): an object is truthy, also
\* an empty one
addressRefused(address) == address \in {"none", "empty"}

\* jobSchema.skill: { type: String, enum: SKILLS, required: true }
skillValid(skill) == skill \in Skills

\* The checks of the body and the first job.save(), which validates against
\* jobSchema; with a file the upload follows, without one the payment save.
CreateJobFirstSave(J, c, skill, title, description, address, file) ==
    /\ CanStart
    /\ \E j \in J : jobs[j].state = "none"
    /\ IF skill = "none" \/ ~title \/ ~description
       THEN /\ Respond("create", c, 0, 400, "Skill, title, and description are required")
            /\ UNCHANGED <<jobs, inflight>>
       ELSE IF address = "unparsable"
       THEN /\ Respond("create", c, 0, 400, "Invalid address format")
            /\ UNCHANGED <<jobs, inflight>>
       ELSE IF addressRefused(address)
       THEN /\ Respond("create", c, 0, 400, "Address is required for job posting")
            /\ UNCHANGED <<jobs, inflight>>
       ELSE IF ~skillValid(skill)
       THEN /\ Respond("create", c, 0, 500, "Server error while creating job")
            /\ UNCHANGED <<jobs, inflight>>
       ELSE /\ jobs' = [jobs EXCEPT ![NextId(J)] = newJob(c, skill)]
            /\ inflight' = Add(Req("create", c, NextId(J),
                                   IF file THEN "upload" ELSE "payment", NoCode, NoWorker))
            /\ Silent

\* await uploadJobImage(...): it resolves or it throws; a throw is caught and
\* the handler goes on to the payment
CreateJobUpload(r, uploaded) ==
    /\ r \in Pending("create", "upload")
    /\ UNCHANGED jobs
    /\ Silent
    /\ inflight' = Move(r, IF uploaded THEN "image" ELSE "payment")

\* job.image = ...; await job.save(), inside the same try: it writes the image
\* paths, which the job record of the model does not carry
CreateJobImageSave(r) ==
    /\ r \in Pending("create", "image")
    /\ UNCHANGED jobs
    /\ Silent
    /\ inflight' = Move(r, "payment")

\* job.paymentStatus = 'completed'; await job.save(), and the response
CreateJobPayment(r) ==
    /\ r \in Pending("create", "payment")
    /\ UNCHANGED jobs
    /\ inflight' = Del(r)
    /\ IF Stored(r.job)
       THEN Respond("create", r.actor, r.job, 200, "Job posted successfully")
       ELSE Respond("create", r.actor, r.job, 500, "Server error while creating job")

\* ------------------------------------------------------------- acceptJob

\* the query with status: 'active' alone
activeJobsOnlyActive(w) ==
    {k \in JobIds : Stored(k) /\ jobs[k].workerId = w /\ jobs[k].status = "active"}

\* Job.find({ workerId, status: { $in: ['assigned', 'active'] } })
activeJobs(w) ==
    {k \in JobIds : Stored(k) /\ jobs[k].workerId = w
                    /\ jobs[k].status \in {"assigned", "active"}}

\* the filter with _id alone
claimFilterIdOnly(j) == Stored(j)

\* the filter of the findOneAndUpdate: { _id, status: 'posted', workerId: null }
claimFilter(j) ==
    Stored(j) /\ jobs[j].status = "posted" /\ jobs[j].workerId = NoWorker

\* the update of the findOneAndUpdate: { workerId, status: 'assigned' }
claimUpdate(j, w) ==
    [jobs EXCEPT ![j].workerId = w, ![j].status = "assigned"]

\* the status code after a findOneAndUpdate that matched nothing
rereadCode(j) ==
    IF ~Stored(j) THEN 404
    ELSE IF jobs[j].workerId # NoWorker THEN 409
    ELSE 400

rereadMessage(j) ==
    IF ~Stored(j) THEN "Job not found"
    ELSE IF jobs[j].workerId # NoWorker THEN "Another worker selected this job before you"
    ELSE "Job is no longer available"

\* the check passed by every worker who has a skill
hasAnySkill(w, j) == skills(w) # {}

\* worker.skills.includes(job.skill); job is the document the claim returned,
\* and no handler changes a job's skill
hasSkill(w, j) == jobs[j].skill \in skills(w)

\* the rollback with { status: 'posted' } alone
rollbackStatusOnly(j) ==
    IF Stored(j) THEN [jobs EXCEPT ![j].status = "posted"] ELSE jobs

\* Job.findByIdAndUpdate(jobId, { workerId: null, status: 'posted' })
rollback(j) ==
    IF Stored(j)
    THEN [jobs EXCEPT ![j].workerId = NoWorker, ![j].status = "posted"]
    ELSE jobs

AcceptJobCheck(w, j) ==
    /\ CanStart
    /\ UNCHANGED jobs
    /\ IF activeJobs(w) # {}
       THEN /\ Respond("accept", w, j, 400, "You already have an active job")
            /\ UNCHANGED inflight
       ELSE /\ inflight' = Add(Req("accept", w, j, "claim", NoCode, NoWorker))
            /\ Silent

AcceptJobClaim(r) ==
    /\ r \in Pending("accept", "claim")
    /\ Silent
    /\ IF claimFilter(r.job)
       THEN /\ jobs' = claimUpdate(r.job, r.actor)
            /\ inflight' = Move(r, "skill")
       ELSE /\ UNCHANGED jobs
            /\ inflight' = Move(r, "reread")

AcceptJobReread(r) ==
    /\ r \in Pending("accept", "reread")
    /\ UNCHANGED jobs
    /\ inflight' = Del(r)
    /\ Respond("accept", r.actor, r.job, rereadCode(r.job), rereadMessage(r.job))

\* Worker.findById(workerId) finds the worker: an authenticated worker's
\* account is never removed.  Then the skill check and the rollback.
AcceptJobFinish(r) ==
    /\ r \in Pending("accept", "skill")
    /\ inflight' = Del(r)
    /\ IF hasSkill(r.actor, r.job)
       THEN /\ UNCHANGED jobs
            /\ Respond("accept", r.actor, r.job, 200, "Job accepted successfully")
       ELSE /\ jobs' = rollback(r.job)
            /\ Respond("accept", r.actor, r.job, 400,
                       "You do not have the required skill for this job")

\* -------------------------------------------------------------- startJob

\* the query with _id alone
ownedByAnyone(j, c) == Stored(j)

\* Job.findOne({ _id: jobId, clientId })
ownedBy(j, c) == Stored(j) /\ jobs[j].clientId = c

\* job.status !== 'assigned' is refused
startable(j) == jobs[j].status = "assigned"

StartJobRead(c, j) ==
    /\ CanStart
    /\ UNCHANGED jobs
    /\ IF ~ownedBy(j, c)
       THEN /\ Respond("start", c, j, 404, "Job not found")
            /\ UNCHANGED inflight
       ELSE IF ~startable(j)
       THEN /\ Respond("start", c, j, 400, "Job must be assigned to start")
            /\ UNCHANGED inflight
       ELSE /\ inflight' = Add(Req("start", c, j, "save", NoCode, NoWorker))
            /\ Silent

\* job.status = 'active'; job.startedAt = new Date(); await job.save()
startSave(j) == [jobs EXCEPT ![j].status = "active"]

StartJobSave(r) ==
    /\ r \in Pending("start", "save")
    /\ inflight' = Del(r)
    /\ IF Stored(r.job)
       THEN /\ jobs' = startSave(r.job)
            /\ Respond("start", r.actor, r.job, 200, "Job started successfully")
       ELSE /\ UNCHANGED jobs
            /\ Respond("start", r.actor, r.job, 500, "Error starting job")

\* ------------------------------------------------------ getCompletionOTP

\* Job.findOne({ _id: jobId, workerId })
assignedTo(j, w) == Stored(j) /\ jobs[j].workerId = w

\* job.status !== 'active' is refused
otpAllowed(j) == jobs[j].status = "active"

GetCompletionOTPReadStoresFirst(w, j) ==
    /\ CanStart
    /\ IF ~assignedTo(j, w)
       THEN /\ Respond("otp", w, j, 404, "Job not found or you are not assigned to this job")
            /\ UNCHANGED <<jobs, inflight>>
       ELSE IF ~otpAllowed(j)
       THEN /\ jobs' = [jobs EXCEPT ![j].completionOTP = "482913"]
            /\ Respond("otp", w, j, 400, "Job must be active to generate completion OTP")
            /\ UNCHANGED inflight
       ELSE /\ inflight' = Add(Req("otp", w, j, "save", NoCode, NoWorker))
            /\ UNCHANGED jobs
            /\ Silent

GetCompletionOTPRead(w, j) ==
    /\ CanStart
    /\ UNCHANGED jobs
    /\ IF ~assignedTo(j, w)
       THEN /\ Respond("otp", w, j, 404, "Job not found or you are not assigned to this job")
            /\ UNCHANGED inflight
       ELSE IF ~otpAllowed(j)
       THEN /\ Respond("otp", w, j, 400, "Job must be active to generate completion OTP")
            /\ UNCHANGED inflight
       ELSE /\ inflight' = Add(Req("otp", w, j, "save", NoCode, NoWorker))
            /\ Silent

\* job.completionOTP = completionOTP; await job.save()
otpSave(j, code) == [jobs EXCEPT ![j].completionOTP = code]

\* code is the 6-digit number Math.random() gave
GetCompletionOTPSave(r, code) ==
    /\ r \in Pending("otp", "save")
    /\ inflight' = Del(r)
    /\ IF Stored(r.job)
       THEN /\ jobs' = otpSave(r.job, code)
            /\ ret' = [Ret("otp", r.actor, r.job, 200, "Share this OTP with the client")
                         EXCEPT !.otp = code]
       ELSE /\ UNCHANGED jobs
            /\ Respond("otp", r.actor, r.job, 500, "Error generating completion OTP")

\* ----------------------------------------------------------- completeJob

\* job.status !== 'active' is refused
completable(j) == jobs[j].status = "active"

\* job.completionOTP !== otp is refused
otpMatches(j, otp) == jobs[j].completionOTP = otp

\* the response carries nothing of the otp; ret.otp keeps what the call supplied
RespondComplete(c, j, otp, code, msg) ==
    ret' = [Ret("complete", c, j, code, msg) EXCEPT !.otp = otp]

CompleteJobRead(c, j, otp) ==
    /\ CanStart
    /\ UNCHANGED jobs
    /\ IF otp = NoCode
       THEN /\ RespondComplete(c, j, otp, 400, "OTP is required to complete the job")
            /\ UNCHANGED inflight
       ELSE IF ~ownedBy(j, c)
       THEN /\ RespondComplete(c, j, otp, 404, "Job not found")
            /\ UNCHANGED inflight
       ELSE IF ~completable(j)
       THEN /\ RespondComplete(c, j, otp, 400, "Job must be active to complete")
            /\ UNCHANGED inflight
       ELSE IF jobs[j].completionOTP = NoCode
       THEN /\ RespondComplete(c, j, otp, 400, "No OTP generated for this job")
            /\ UNCHANGED inflight
       ELSE IF ~otpMatches(j, otp)
       THEN /\ RespondComplete(c, j, otp, 400, "Invalid OTP")
            /\ UNCHANGED inflight
       ELSE /\ inflight' = Add(Req("complete", c, j, "save", otp, jobs[j].workerId))
            /\ Silent

\* job.status = 'completed'; job.completionOTP = undefined; await job.save()
completeSave(j) ==
    [jobs EXCEPT ![j].status = "completed", ![j].completionOTP = NoCode]

\* the save; the worker's completedJobs counter is then read and written, which
\* touches no job, and the response follows
CompleteJobSave(r) ==
    /\ r \in Pending("complete", "save")
    /\ inflight' = Del(r)
    /\ IF Stored(r.job)
       THEN /\ jobs' = completeSave(r.job)
            /\ RespondComplete(r.actor, r.job, r.otp, 200, "Job completed successfully")
       ELSE /\ UNCHANGED jobs
            /\ RespondComplete(r.actor, r.job, r.otp, 500, "Error completing job")

\* ----------------------------------------- completeJob, await by await

\* the job save; Worker.findById(job.workerId) follows
CompleteJobWrite(r) ==
    /\ r \in Pending("complete", "save")
    /\ UNCHANGED completedJobs
    /\ IF Stored(r.job)
       THEN /\ jobs' = completeSave(r.job)
            /\ inflight' = Move(r, "worker")
            /\ Silent
       ELSE /\ UNCHANGED jobs
            /\ inflight' = Del(r)
            /\ RespondComplete(r.actor, r.job, r.otp, 500, "Error completing job")

\* Worker.findById(job.workerId), job being the document read at the start;
\* without a worker the response follows at once
CompleteJobFindWorker(r) ==
    /\ r \in Pending("complete", "worker")
    /\ UNCHANGED <<jobs, completedJobs>>
    /\ IF r.snapWorker = NoWorker
       THEN /\ inflight' = Del(r)
            /\ RespondComplete(r.actor, r.job, r.otp, 200, "Job completed successfully")
       ELSE /\ inflight' = Del(r) (+) SetToBag({[r EXCEPT !.pc = "count",
                                                          !.count = completedJobs[r.snapWorker]]})
            /\ Silent

\* worker.completedJobs = (worker.completedJobs || 0) + 1; await worker.save():
\* completedJobs is no path of workerSchema, so the assignment makes a plain
\* property of the document object and save() writes nothing of it
counterSave(w, n) == completedJobs

CompleteJobCount(r) ==
    /\ r \in Pending("complete", "count")
    /\ UNCHANGED jobs
    /\ inflight' = Del(r)
    /\ completedJobs' = counterSave(r.snapWorker, r.count + 1)
    /\ RespondComplete(r.actor, r.job, r.otp, 200, "Job completed successfully")

\* ------------------------------------------------------------- cancelJob

\* the check with 'active' let through
cancellableWhileActive(j) == jobs[j].status \in {"posted", "assigned", "active"}

\* only ['posted', 'assigned'] may be cancelled
cancellable(j) == jobs[j].status \in {"posted", "assigned"}

CancelJobRead(c, j) ==
    /\ CanStart
    /\ UNCHANGED jobs
    /\ IF ~ownedBy(j, c)
       THEN /\ Respond("cancel", c, j, 404, "Job not found")
            /\ UNCHANGED inflight
       ELSE IF ~cancellable(j)
       THEN /\ Respond("cancel", c, j, 400, "Cannot cancel a job that is already started")
            /\ UNCHANGED inflight
       ELSE /\ inflight' = Add(Req("cancel", c, j, "delete", NoCode, NoWorker))
            /\ Silent

\* Job.findByIdAndDelete(jobId)
deleteJob(j) ==
    IF Stored(j) THEN [jobs EXCEPT ![j].state = "deleted"] ELSE jobs

CancelJobDelete(r) ==
    /\ r \in Pending("cancel", "delete")
    /\ inflight' = Del(r)
    /\ jobs' = deleteJob(r.job)
    /\ Respond("cancel", r.actor, r.job, 200, "Job cancelled successfully")

\* ----------------------------------------------------- cancelJobByWorker

\* job.status !== 'assigned' && job.status !== 'active' is refused
releasable(j) == jobs[j].status = "assigned" \/ jobs[j].status = "active"

CancelJobByWorkerRead(w, j) ==
    /\ CanStart
    /\ UNCHANGED jobs
    /\ IF ~assignedTo(j, w)
       THEN /\ Respond("cancelWorker", w, j, 404,
                       "Job not found or you are not assigned to this job")
            /\ UNCHANGED inflight
       ELSE IF ~releasable(j)
       THEN /\ Respond("cancelWorker", w, j, 400, "Cannot cancel a job with this status")
            /\ UNCHANGED inflight
       ELSE /\ inflight' = Add(Req("cancelWorker", w, j, "save", NoCode, NoWorker))
            /\ Silent

\* the save without job.completionOTP = undefined
cancelWorkerSaveKeepOtp(j) ==
    [jobs EXCEPT ![j].status = "posted", ![j].workerId = NoWorker]

\* job.status = 'posted'; job.workerId = undefined; job.assignedAt = undefined;
\* job.completionOTP = undefined; await job.save()
cancelWorkerSave(j) ==
    [jobs EXCEPT ![j].status = "posted", ![j].workerId = NoWorker,
                 ![j].completionOTP = NoCode]

CancelJobByWorkerSave(r) ==
    /\ r \in Pending("cancelWorker", "save")
    /\ inflight' = Del(r)
    /\ IF Stored(r.job)
       THEN /\ jobs' = cancelWorkerSave(r.job)
            /\ Respond("cancelWorker", r.actor, r.job, 200, "Job cancelled successfully")
       ELSE /\ UNCHANGED jobs
            /\ Respond("cancelWorker", r.actor, r.job, 500, "Error cancelling job")

\* ------------------------------------------------ rateWorker, rateClient

\* req.body.rating as the JSON value sent: absent, a number, or a text
Ratings == {"missing", "0", "-1", "2.5", "3", "6", "abc"}

\* the value is a number
isNumber(rating) == rating \notin {"missing", "abc"}

\* the number, in tenths
tenths(rating) ==
    CASE rating = "0" -> 0
      [] rating = "-1" -> -10
      [] rating = "2.5" -> 25
      [] rating = "3" -> 30
      [] rating = "6" -> 60

\* !rating || rating < 1 || rating > 5 (a comparison with a text that is no
\* number is false)
ratingRefused(rating) ==
    \/ rating = "missing"
    \/ isNumber(rating) /\ (tenths(rating) = 0 \/ tenths(rating) < 10 \/ tenths(rating) > 50)

\* reviewSchema.rating: { type: Number, min: 1, max: 5, required: true }
ratingValid(rating) ==
    isNumber(rating) /\ tenths(rating) >= 10 /\ tenths(rating) <= 50

\* new Review({ clientId, workerId, jobId, reviewType, rating, review })
newReview(c, w, j, reviewType, rating) ==
    [clientId |-> c, workerId |-> w, jobId |-> j, reviewType |-> reviewType,
     rating |-> rating]

RateReq(op, actor, j, pc, rating, w, c) ==
    [Req(op, actor, j, pc, NoCode, w) EXCEPT !.rating = rating, !.snapClient = c]

\* the rating calls between two awaits
ratingCalls ==
    [r \in {q \in BagToSet(inflight) : q.op \in {"rateWorker", "rateClient"}}
        |-> CopiesIn(r, inflight)]

\* the Review collection and the rating calls in flight stay within MaxReviews
ReviewRoom == BagCardinality(reviews) + BagCardinality(ratingCalls) < MaxReviews

\* the rating check, then Job.findOne({ _id: jobId, clientId }) and its checks
RateWorkerRead(c, j, rating) ==
    /\ CanStart
    /\ ReviewRoom
    /\ UNCHANGED <<jobs, reviews>>
    /\ IF ratingRefused(rating)
       THEN /\ Respond("rateWorker", c, j, 400, "Rating must be between 1 and 5")
            /\ UNCHANGED inflight
       ELSE IF ~ownedBy(j, c)
       THEN /\ Respond("rateWorker", c, j, 404, "Job not found")
            /\ UNCHANGED inflight
       ELSE IF jobs[j].status # "completed"
       THEN /\ Respond("rateWorker", c, j, 400, "Can only rate completed jobs")
            /\ UNCHANGED inflight
       ELSE IF jobs[j].workerId = NoWorker
       THEN /\ Respond("rateWorker", c, j, 400, "No worker assigned to this job")
            /\ UNCHANGED inflight
       ELSE /\ inflight' = Add(RateReq("rateWorker", c, j, "existing", rating,
                                       jobs[j].workerId, c))
            /\ Silent

\* Review.findOne({ jobId, clientId, reviewType: 'client-to-worker' })
ratedByClient(j, c) ==
    \E v \in BagToSet(reviews) :
        v.jobId = j /\ v.clientId = c /\ v.reviewType = "client-to-worker"

RateWorkerExisting(r) ==
    /\ r \in Pending("rateWorker", "existing")
    /\ UNCHANGED <<jobs, reviews>>
    /\ IF ratedByClient(r.job, r.actor)
       THEN /\ inflight' = Del(r)
            /\ Respond("rateWorker", r.actor, r.job, 400, "Worker already rated for this job")
       ELSE /\ inflight' = Move(r, "save")
            /\ Silent

\* await newReview.save(): the schema validates the rating
RateWorkerSave(r) ==
    /\ r \in Pending("rateWorker", "save")
    /\ UNCHANGED jobs
    /\ inflight' = Del(r)
    /\ IF ratingValid(r.rating)
       THEN /\ reviews' = reviews (+) SetToBag({newReview(r.actor, r.snapWorker, r.job,
                                                         "client-to-worker", r.rating)})
            /\ Respond("rateWorker", r.actor, r.job, 200, "Worker rated successfully")
       ELSE /\ UNCHANGED reviews
            /\ Respond("rateWorker", r.actor, r.job, 500, "Error rating worker")

\* the rating check, then Job.findOne({ _id: jobId, workerId }) and its check
RateClientRead(w, j, rating) ==
    /\ CanStart
    /\ ReviewRoom
    /\ UNCHANGED <<jobs, reviews>>
    /\ IF ratingRefused(rating)
       THEN /\ Respond("rateClient", w, j, 400, "Rating must be between 1 and 5")
            /\ UNCHANGED inflight
       ELSE IF ~assignedTo(j, w)
       THEN /\ Respond("rateClient", w, j, 404, "Job not found")
            /\ UNCHANGED inflight
       ELSE IF jobs[j].status # "completed"
       THEN /\ Respond("rateClient", w, j, 400, "Can only rate completed jobs")
            /\ UNCHANGED inflight
       ELSE /\ inflight' = Add(RateReq("rateClient", w, j, "existing", rating,
                                       w, jobs[j].clientId))
            /\ Silent

\* Review.findOne({ jobId, workerId, reviewType: 'worker-to-client' })
ratedByWorker(j, w) ==
    \E v \in BagToSet(reviews) :
        v.jobId = j /\ v.workerId = w /\ v.reviewType = "worker-to-client"

RateClientExisting(r) ==
    /\ r \in Pending("rateClient", "existing")
    /\ UNCHANGED <<jobs, reviews>>
    /\ IF ratedByWorker(r.job, r.actor)
       THEN /\ inflight' = Del(r)
            /\ Respond("rateClient", r.actor, r.job, 400, "Client already rated for this job")
       ELSE /\ inflight' = Move(r, "save")
            /\ Silent

RateClientSave(r) ==
    /\ r \in Pending("rateClient", "save")
    /\ UNCHANGED jobs
    /\ inflight' = Del(r)
    /\ IF ratingValid(r.rating)
       THEN /\ reviews' = reviews (+) SetToBag({newReview(r.snapClient, r.actor, r.job,
                                                         "worker-to-client", r.rating)})
            /\ Respond("rateClient", r.actor, r.job, 200, "Client rated successfully")
       ELSE /\ UNCHANGED reviews
            /\ Respond("rateClient", r.actor, r.job, 500, "Error rating client")

\* ------------------------------------------------------------ the router

\* req.user.role, as authenticateToken took it from the token
role(u) == IF u \in Clients THEN "client" ELSE "worker"

\* the role each route asks for
routeRole(op) ==
    IF op \in {"create", "cancel", "start", "complete", "rateWorker"}
    THEN "client" ELSE "worker"

RouteOps == {"create", "cancel", "start", "complete", "rateWorker",
             "accept", "cancelWorker", "otp", "rateClient"}

\* req.user.role !== role is refused
requireRole(r, u) == role(u) = r

\* a request that requireRole stops before its handler
RoleDenied(u, op, j) ==
    /\ ~requireRole(routeRole(op), u)
    /\ UNCHANGED <<jobs, inflight, reviews>>
    /\ Respond(op, u, j, 403,
               IF routeRole(op) = "client" THEN "Access denied. client role required."
                                           ELSE "Access denied. worker role required.")

\* ----------------------------------------------- register, verifyOTP

\* the OTP documents in the collection, and the one a findOne on data returns:
\* the first in insertion order
otpsOf(data) == {i \in OtpIds : otps[i].state = "stored" /\ otps[i].data = data}
findOneOtp(data) ==
    IF otpsOf(data) = {} THEN 0
    ELSE CHOOSE i \in otpsOf(data) : \A k \in otpsOf(data) : i <= k
FreeOtps == {i \in OtpIds : otps[i].state = "none"}
NextOtp == CHOOSE i \in FreeOtps : \A k \in FreeOtps : i <= k

\* OTP.deleteMany({ data }) and new OTP({ data, code }).save(): attempts
\* takes the schema's default 0
deleteMany(data) ==
    [i \in OtpIds |-> IF i \in otpsOf(data) THEN [otps[i] EXCEPT !.state = "deleted"]
                                            ELSE otps[i]]
newOtp(data, code) == [state |-> "stored", data |-> data, code |-> code, attempts |-> 0]
deleteOne(i) ==
    IF otps[i].state = "stored" THEN [otps EXCEPT ![i].state = "deleted"] ELSE otps

\* register for RegEmail with every field given and a valid role; otpCode is
\* the 6-digit number Math.random() gave
Register(otpCode) ==
    /\ FreeOtps # {}
    /\ UNCHANGED inflight
    /\ IF account = "temporary"
       THEN /\ Respond("register", RegEmail, 0, 400, "Please complete your registration first")
            /\ UNCHANGED <<otps, account>>
       ELSE IF account = "verified"
       THEN /\ Respond("register", RegEmail, 0, 409, "An account with this email already exists")
            /\ UNCHANGED <<otps, account>>
       ELSE /\ account' = "temporary"
            /\ otps' = [deleteMany(RegEmail) EXCEPT ![NextOtp] = newOtp(RegEmail, otpCode)]
            /\ Respond("register", RegEmail, 0, 200, "Registration initiated")

\* the TTL indexes: expiresAt of the OTP document, createdAt of a temporary user
ExpireOtp(i) ==
    /\ otps[i].state = "stored"
    /\ otps' = [otps EXCEPT ![i].state = "deleted"]
    /\ Silent
    /\ UNCHANGED <<inflight, account>>

ExpireUser ==
    /\ account = "temporary"
    /\ account' = "none"
    /\ Silent
    /\ UNCHANGED <<inflight, otps>>

\* the body check, OTP.findOne({ data }), and the checks on the document read
VerifyOTPFind(code) ==
    /\ CanStart
    /\ UNCHANGED <<otps, account>>
    /\ LET i == findOneOtp(RegEmail)
       IN  IF code = NoCode
           THEN /\ Respond("verifyOTP", RegEmail, 0, 400, "OTP is required")
                /\ UNCHANGED inflight
           ELSE IF i = 0
           THEN /\ Respond("verifyOTP", RegEmail, 0, 400, "Invalid or expired OTP")
                /\ UNCHANGED inflight
           ELSE IF otps[i].attempts >= 3
           THEN /\ inflight' = Add(Req("verifyOTP", RegEmail, i, "lockout", code, NoWorker))
                /\ Silent
           ELSE IF otps[i].code # code
           THEN /\ inflight' = Add([Req("verifyOTP", RegEmail, i, "attempt", code, NoWorker)
                                       EXCEPT !.count = otps[i].attempts])
                /\ Silent
           ELSE /\ inflight' = Add(Req("verifyOTP", RegEmail, i, "user", code, NoWorker))
                /\ Silent

\* OTP.deleteOne({ _id }) and the 400 of the lockout
VerifyOTPLockout(r) ==
    /\ r \in Pending("verifyOTP", "lockout")
    /\ inflight' = Del(r)
    /\ otps' = deleteOne(r.job)
    /\ UNCHANGED account
    /\ Respond("verifyOTP", r.actor, r.job, 400, "Too many failed attempts. Please register again.")

\* otpRecord.attempts += 1; await otpRecord.save(): the save sets attempts to
\* the value computed from the document as it was read
attemptSave(i, n) == [otps EXCEPT ![i].attempts = n]

VerifyOTPAttempt(r) ==
    /\ r \in Pending("verifyOTP", "attempt")
    /\ inflight' = Del(r)
    /\ UNCHANGED account
    /\ IF otps[r.job].state = "stored"
       THEN /\ otps' = attemptSave(r.job, r.count + 1)
            /\ Respond("verifyOTP", r.actor, r.job, 400, "The OTP you entered is incorrect.")
       ELSE /\ UNCHANGED otps
            /\ Respond("verifyOTP", r.actor, r.job, 500, "Server error during verification")

\* Client.findOne, Worker.findOne; with no user the handler reads the
\* undeclared name email and throws
VerifyOTPUser(r) ==
    /\ r \in Pending("verifyOTP", "user")
    /\ UNCHANGED <<otps, account>>
    /\ IF account = "none"
       THEN /\ inflight' = Del(r)
            /\ Respond("verifyOTP", r.actor, r.job, 500, "Server error during verification")
       ELSE /\ inflight' = Move(r, "verify")
            /\ Silent

\* user.isTemporary = false; user.email.verified = true; await user.save()
VerifyOTPSaveUser(r) ==
    /\ r \in Pending("verifyOTP", "verify")
    /\ UNCHANGED otps
    /\ IF account = "none"
       THEN /\ inflight' = Del(r)
            /\ UNCHANGED account
            /\ Respond("verifyOTP", r.actor, r.job, 500, "Server error during verification")
       ELSE /\ account' = "verified"
            /\ inflight' = Move(r, "cleanup")
            /\ Silent

\* OTP.deleteOne({ _id }), the tokens and the 200
VerifyOTPCleanup(r) ==
    /\ r \in Pending("verifyOTP", "cleanup")
    /\ inflight' = Del(r)
    /\ otps' = deleteOne(r.job)
    /\ UNCHANGED account
    /\ Respond("verifyOTP", r.actor, r.job, 200, "Email verified successfully")

\* ------------------- sendUpdateEmailOtp, sendUpdatePhoneOtp (client.js)
\* ---------------------------- verifyEmailOtp, verifyPhoneOtp (client.js)

\* The handlers for the phone are the handlers for the email with phone for
\* email; where the two differ, kind(v) tells them apart.
\*
\* otpSchema has the paths data, code, expiresAt, attempts, resendCount and the
\* timestamps.  purpose, clientId and verified are no paths of it: save() does
\* not store them, and what a filter naming them matches depends on mongoose's
\* strictQuery, whose default differs between the major versions: when it is
\* on, the unknown fields are dropped from the filter; when it is off, they are
\* sent to the database, where no stored document has them.
Builds == {"strict", "loose"}
Resolve(b) == (strictQuery = "unset" \/ strictQuery = b) /\ strictQuery' = b

\* { data, purpose: ... }: the documents the filter matches
byPurpose(data, b) == IF b = "strict" THEN otpsOf(data) ELSE {}
\* { data, code, purpose, clientId, ... }
byCode(data, code, b) == {i \in byPurpose(data, b) : otps[i].code = code}
first(S) == IF S = {} THEN 0 ELSE CHOOSE i \in S : \A k \in S : i <= k

\* a request that may yet store an OTP document
storing(r) ==
    \/ r.op = "sendOtp"
    \/ r.op = "verifyOtp" /\ r.pc \in {"expired", "count", "record"}
OtpRoom ==
    Cardinality(FreeOtps) > BagCardinality([r \in {x \in BagToSet(inflight) : storing(x)}
                                                |-> CopiesIn(r, inflight)])

ContactReq(op, c, v, pc, code) ==
    [Req(op, c, 0, pc, code, NoWorker) EXCEPT !.value = v]
RespondContact(op, c, v, code, msg) ==
    ret' = [Ret(op, c, 0, code, msg) EXCEPT !.value = v]

\* OTP.findOne({ data, createdAt: { $gt: a minute ago } }), for the phone
\* with purpose in the filter; recent tells whether a document is that young
SendUpdateOtpRecent(c, v, recent, b) ==
    /\ CanStart /\ OtpRoom
    /\ Resolve(b)
    /\ UNCHANGED <<otps, account, contact>>
    /\ IF recent /\ (IF kind(v) = "phone" THEN byPurpose(v, b) ELSE otpsOf(v)) # {}
       THEN /\ RespondContact("sendOtp", c, v, 429, "Please wait before requesting a new OTP")
            /\ UNCHANGED inflight
       ELSE /\ inflight' = Add(ContactReq("sendOtp", c, v, "existing", NoCode))
            /\ Silent

\* Client.findOne({ 'email.email': email, _id: { $ne: userId } }), then
\* generateOTP()
inUse(c, v) == \E o \in Clients \ {c} : contact[o][kind(v)] = v

SendUpdateOtpExisting(r, code) ==
    /\ r \in Pending("sendOtp", "existing")
    /\ UNCHANGED <<otps, account, contact, strictQuery>>
    /\ IF inUse(r.actor, r.value)
       THEN /\ inflight' = Del(r)
            /\ RespondContact("sendOtp", r.actor, r.value, 409,
                              "This email is already registered with another account")
       ELSE /\ inflight' = Del(r) (+) SetToBag({[r EXCEPT !.pc = "clear", !.otp = code]})
            /\ Silent

\* OTP.deleteMany({ data }), for the phone OTP.deleteMany({ data, purpose })
SendUpdateOtpClear(r, b) ==
    /\ r \in Pending("sendOtp", "clear")
    /\ Resolve(b)
    /\ UNCHANGED <<account, contact>>
    /\ otps' = IF kind(r.value) = "phone" /\ b = "loose" THEN otps ELSE deleteMany(r.value)
    /\ inflight' = Move(r, "save")
    /\ Silent

\* otpDoc.save() and the response; for the phone sendSMS comes between them
SendUpdateOtpSave(r, sms) ==
    /\ r \in Pending("sendOtp", "save")
    /\ FreeOtps # {}
    /\ UNCHANGED <<account, contact, strictQuery>>
    /\ otps' = [otps EXCEPT ![NextOtp] = newOtp(r.value, r.otp)]
    /\ inflight' = Del(r)
    /\ IF kind(r.value) = "phone" /\ ~sms
       THEN ret' = [Ret("sendOtp", r.actor, 0, 500, "Failed to send verification code")
                      EXCEPT !.value = r.value, !.otp = r.otp]
       ELSE ret' = [Ret("sendOtp", r.actor, 0, 200, "Verification code has been sent")
                      EXCEPT !.value = r.value, !.otp = r.otp]

\* the body checks and OTP.findOne({ data, code: otp, purpose, clientId,
\* expiresAt: { $gt: now } }); the TTL index has removed what expired
VerifyOtpFind(c, v, otp, b) ==
    /\ CanStart /\ OtpRoom
    /\ Resolve(b)
    /\ UNCHANGED <<otps, account, contact>>
    /\ IF otp = NoCode
       THEN /\ RespondContact("verifyOtp", c, v, 400, "OTP and email are required")
            /\ UNCHANGED inflight
       ELSE IF byCode(v, otp, b) = {}
       THEN /\ inflight' = Add(ContactReq("verifyOtp", c, v, "expired", otp))
            /\ Silent
       ELSE /\ inflight' = Add([ContactReq("verifyOtp", c, v, "mark", otp)
                                   EXCEPT !.job = first(byCode(v, otp, b))])
            /\ Silent

\* OTP.findOne({ data, code: otp, purpose, clientId })
VerifyOtpExpired(r, b) ==
    /\ r \in Pending("verifyOtp", "expired")
    /\ Resolve(b)
    /\ UNCHANGED <<otps, account, contact>>
    /\ IF byCode(r.value, r.otp, b) # {}
       THEN /\ inflight' = Del(r)
            /\ RespondContact("verifyOtp", r.actor, r.value, 400,
                              "This verification code has expired. Please request a new one.")
       ELSE /\ inflight' = Move(r, "count")
            /\ Silent

\* OTP.countDocuments({ data, purpose, clientId, verified: false,
\* createdAt: { $gt: 15 minutes ago } }): a document lives 10 minutes
failedAttempts(data, b) == Cardinality(byPurpose(data, b))

VerifyOtpCount(r, b) ==
    /\ r \in Pending("verifyOtp", "count")
    /\ Resolve(b)
    /\ UNCHANGED <<otps, account, contact>>
    /\ IF failedAttempts(r.value, b) >= 3
       THEN /\ inflight' = Del(r)
            /\ RespondContact("verifyOtp", r.actor, r.value, 429,
                              "Too many failed attempts. Please try again in 15 minutes.")
       ELSE /\ inflight' = Move(r, "record")
            /\ Silent

\* new OTP({ data, code: otp, purpose, clientId, verified: false }).save():
\* the failed attempt is stored as an OTP document with the code submitted
VerifyOtpRecord(r) ==
    /\ r \in Pending("verifyOtp", "record")
    /\ FreeOtps # {}
    /\ UNCHANGED <<account, contact, strictQuery>>
    /\ otps' = [otps EXCEPT ![NextOtp] = newOtp(r.value, r.otp)]
    /\ inflight' = Del(r)
    /\ RespondContact("verifyOtp", r.actor, r.value, 400,
                      "Invalid verification code. Please try again.")

\* otpRecord.verified = true; otpRecord.verifiedAt = ...; await
\* otpRecord.save(): neither is a path, nothing is written
VerifyOtpMark(r) ==
    /\ r \in Pending("verifyOtp", "mark")
    /\ UNCHANGED <<otps, account, contact, strictQuery>>
    /\ inflight' = Move(r, "update")
    /\ Silent

\* Client.findByIdAndUpdate(userId, { 'email.email': email, ... }); the unique
\* index refuses a value another client has
contactUpdate(c, v) == [contact EXCEPT ![c][kind(v)] = v]

VerifyOtpUpdate(r) ==
    /\ r \in Pending("verifyOtp", "update")
    /\ UNCHANGED <<otps, account, strictQuery>>
    /\ IF inUse(r.actor, r.value)
       THEN /\ UNCHANGED contact
            /\ inflight' = Del(r)
            /\ RespondContact("verifyOtp", r.actor, r.value, 409,
                              "This email is already registered with another account")
       ELSE /\ contact' = contactUpdate(r.actor, r.value)
            /\ inflight' = Move(r, "cleanup")
            /\ Silent

\* OTP.deleteOne({ _id }) and the 200
VerifyOtpCleanup(r) ==
    /\ r \in Pending("verifyOtp", "cleanup")
    /\ UNCHANGED <<account, contact, strictQuery>>
    /\ otps' = deleteOne(r.job)
    /\ inflight' = Del(r)
    /\ RespondContact("verifyOtp", r.actor, r.value, 200, "Email updated successfully")

\* ------------------------------------------------------------ observers

\* the 200 responses of completeJob and cancelJob, counted per job
Count200 ==
    ok200' = IF ret'.code = 200 /\ ret'.op \in Counted
             THEN [ok200 EXCEPT ![ret'.op][ret'.job] = IF @ < MaxCount THEN @ + 1 ELSE @]
             ELSE ok200

\* the code the latest successful getCompletionOTP handed to the worker
LatestCode ==
    lastCode' = IF ret'.op = "otp" /\ ret'.code = 200
                THEN [lastCode EXCEPT ![ret'.job] = ret'.otp]
                ELSE lastCode

\* the acceptJob responses per job
LogAccept ==
    acceptLog' =
        IF ret'.op = "accept"
        THEN [acceptLog EXCEPT ![ret'.job] =
                [n200 |-> IF ret'.code = 200 /\ @.n200 < MaxCount THEN @.n200 + 1 ELSE @.n200,
                 winner |-> IF ret'.code = 200 THEN ret'.actor ELSE @.winner,
                 answered |-> @.answered \cup {ret'.actor}]]
        ELSE acceptLog

\* ------------------------------------------------------ the specifications

\* A request names the _id of a job that was created: the ids are ObjectIds the
\* server handed out, in createJob's response or in a listing.
Known(J) == {j \in J : jobs[j].state # "none"}

\* address of the request body: absent, {}, with a city, with coordinates
Addresses == {"none", "empty", "city", "location"}

\* The whole lifecycle of one job, all handlers interleaving.
SeenLifecycle ==
    /\ Count200 /\ LatestCode /\ UNCHANGED <<acceptLog, reviews, completedJobs, codeBy, holding>>
    /\ AccountsIdle

Next ==
    \/ \E c \in Clients, skill \in Skills \cup {"none"}, title \in BOOLEAN,
          description \in BOOLEAN, address \in Addresses :
            CreateJob(Lifecycle, c, skill, title, description, address) /\ SeenLifecycle
    \/ \E w \in Workers, j \in Known(Lifecycle) : AcceptJobCheck(w, j) /\ SeenLifecycle
    \/ \E r \in BagToSet(inflight) : AcceptJobClaim(r) /\ SeenLifecycle
    \/ \E r \in BagToSet(inflight) : AcceptJobReread(r) /\ SeenLifecycle
    \/ \E r \in BagToSet(inflight) : AcceptJobFinish(r) /\ SeenLifecycle
    \/ \E c \in Clients, j \in Known(Lifecycle) : StartJobRead(c, j) /\ SeenLifecycle
    \/ \E r \in BagToSet(inflight) : StartJobSave(r) /\ SeenLifecycle
    \/ \E w \in Workers, j \in Known(Lifecycle) : GetCompletionOTPRead(w, j) /\ SeenLifecycle
    \/ \E r \in BagToSet(inflight), code \in Codes : GetCompletionOTPSave(r, code) /\ SeenLifecycle
    \/ \E c \in Clients, j \in Known(Lifecycle), otp \in Codes \cup {NoCode} :
            CompleteJobRead(c, j, otp) /\ SeenLifecycle
    \/ \E r \in BagToSet(inflight) : CompleteJobSave(r) /\ SeenLifecycle
    \/ \E c \in Clients, j \in Known(Lifecycle) : CancelJobRead(c, j) /\ SeenLifecycle
    \/ \E r \in BagToSet(inflight) : CancelJobDelete(r) /\ SeenLifecycle
    \/ \E w \in Workers, j \in Known(Lifecycle) : CancelJobByWorkerRead(w, j) /\ SeenLifecycle
    \/ \E r \in BagToSet(inflight) : CancelJobByWorkerSave(r) /\ SeenLifecycle

Spec == Init /\ [][Next]_vars

\* Only createJob and acceptJob calls, on two jobs: the race for a posted job.
SeenRace ==
    /\ LogAccept /\ UNCHANGED <<ok200, lastCode, reviews, completedJobs, codeBy, holding>>
    /\ AccountsIdle

NextRace ==
    \/ \E c \in Clients, skill \in Skills \cup {"none"}, title \in BOOLEAN,
          description \in BOOLEAN, address \in Addresses :
            CreateJob(JobIds, c, skill, title, description, address) /\ SeenRace
    \/ \E w \in Workers, j \in Known(JobIds) : AcceptJobCheck(w, j) /\ SeenRace
    \/ \E r \in BagToSet(inflight) : AcceptJobClaim(r) /\ SeenRace
    \/ \E r \in BagToSet(inflight) : AcceptJobReread(r) /\ SeenRace
    \/ \E r \in BagToSet(inflight) : AcceptJobFinish(r) /\ SeenRace

SpecRace == Init /\ [][NextRace]_vars

\* Two jobs claimed, started and released.
SeenClaim ==
    /\ UNCHANGED <<ok200, lastCode, acceptLog, reviews, completedJobs, codeBy, holding>>
    /\ AccountsIdle

NextClaim ==
    \/ \E c \in Clients, skill \in Skills \cup {"none"}, title \in BOOLEAN,
          description \in BOOLEAN, address \in Addresses :
            CreateJob(JobIds, c, skill, title, description, address) /\ SeenClaim
    \/ \E w \in Workers, j \in Known(JobIds) : AcceptJobCheck(w, j) /\ SeenClaim
    \/ \E r \in BagToSet(inflight) : AcceptJobClaim(r) /\ SeenClaim
    \/ \E r \in BagToSet(inflight) : AcceptJobReread(r) /\ SeenClaim
    \/ \E r \in BagToSet(inflight) : AcceptJobFinish(r) /\ SeenClaim
    \/ \E c \in Clients, j \in Known(JobIds) : StartJobRead(c, j) /\ SeenClaim
    \/ \E r \in BagToSet(inflight) : StartJobSave(r) /\ SeenClaim
    \/ \E w \in Workers, j \in Known(JobIds) : CancelJobByWorkerRead(w, j) /\ SeenClaim
    \/ \E r \in BagToSet(inflight) : CancelJobByWorkerSave(r) /\ SeenClaim

SpecClaim == Init /\ [][NextClaim]_vars

\* One job from posted to completed, and its ratings.
SeenReview ==
    /\ UNCHANGED <<ok200, lastCode, acceptLog, completedJobs, codeBy, holding>>
    /\ AccountsIdle
SeenRated == SeenReview /\ UNCHANGED reviews

NextReview ==
    \/ \E c \in Clients, skill \in Skills \cup {"none"}, title \in BOOLEAN,
          description \in BOOLEAN, address \in Addresses :
            CreateJob(Lifecycle, c, skill, title, description, address) /\ SeenRated
    \/ \E w \in Workers, j \in Known(Lifecycle) : AcceptJobCheck(w, j) /\ SeenRated
    \/ \E r \in BagToSet(inflight) : AcceptJobClaim(r) /\ SeenRated
    \/ \E r \in BagToSet(inflight) : AcceptJobReread(r) /\ SeenRated
    \/ \E r \in BagToSet(inflight) : AcceptJobFinish(r) /\ SeenRated
    \/ \E c \in Clients, j \in Known(Lifecycle) : StartJobRead(c, j) /\ SeenRated
    \/ \E r \in BagToSet(inflight) : StartJobSave(r) /\ SeenRated
    \/ \E w \in Workers, j \in Known(Lifecycle) : GetCompletionOTPRead(w, j) /\ SeenRated
    \/ \E r \in BagToSet(inflight), code \in Codes : GetCompletionOTPSave(r, code) /\ SeenRated
    \/ \E c \in Clients, j \in Known(Lifecycle), otp \in Codes \cup {NoCode} :
            CompleteJobRead(c, j, otp) /\ SeenRated
    \/ \E r \in BagToSet(inflight) : CompleteJobSave(r) /\ SeenRated
    \/ \E c \in Clients, j \in Known(Lifecycle), rating \in Ratings :
            RateWorkerRead(c, j, rating) /\ SeenReview
    \/ \E r \in BagToSet(inflight) : RateWorkerExisting(r) /\ SeenReview
    \/ \E r \in BagToSet(inflight) : RateWorkerSave(r) /\ SeenReview
    \/ \E w \in Workers, j \in Known(Lifecycle), rating \in Ratings :
            RateClientRead(w, j, rating) /\ SeenReview
    \/ \E r \in BagToSet(inflight) : RateClientExisting(r) /\ SeenReview
    \/ \E r \in BagToSet(inflight) : RateClientSave(r) /\ SeenReview

SpecReview == Init /\ [][NextReview]_vars

\* One plumber job of client c1 and every handler, behind the router's role
\* check; the other client and the worker without the skill are the strangers.
NextAuth ==
    \/ \E c \in {"c1"}, skill \in {"plumber", "none"}, title \in BOOLEAN,
          description \in BOOLEAN, address \in Addresses :
            CreateJob(Lifecycle, c, skill, title, description, address) /\ SeenRated
    \/ \E u \in Clients \cup Workers, op \in RouteOps :
          \E j \in (IF op = "create" THEN {0} ELSE Known(Lifecycle)) :
            RoleDenied(u, op, j) /\ SeenReview
    \/ \E w \in Workers, j \in Known(Lifecycle) : AcceptJobCheck(w, j) /\ SeenRated
    \/ \E r \in BagToSet(inflight) : AcceptJobClaim(r) /\ SeenRated
    \/ \E r \in BagToSet(inflight) : AcceptJobReread(r) /\ SeenRated
    \/ \E r \in BagToSet(inflight) : AcceptJobFinish(r) /\ SeenRated
    \/ \E c \in Clients, j \in Known(Lifecycle) : StartJobRead(c, j) /\ SeenRated
    \/ \E r \in BagToSet(inflight) : StartJobSave(r) /\ SeenRated
    \/ \E w \in Workers, j \in Known(Lifecycle) : GetCompletionOTPRead(w, j) /\ SeenRated
    \/ \E r \in BagToSet(inflight), code \in {"482913"} : GetCompletionOTPSave(r, code) /\ SeenRated
    \/ \E c \in Clients, j \in Known(Lifecycle), otp \in {"482913", NoCode} :
            CompleteJobRead(c, j, otp) /\ SeenRated
    \/ \E r \in BagToSet(inflight) : CompleteJobSave(r) /\ SeenRated
    \/ \E c \in Clients, j \in Known(Lifecycle) : CancelJobRead(c, j) /\ SeenRated
    \/ \E r \in BagToSet(inflight) : CancelJobDelete(r) /\ SeenRated
    \/ \E w \in Workers, j \in Known(Lifecycle) : CancelJobByWorkerRead(w, j) /\ SeenRated
    \/ \E r \in BagToSet(inflight) : CancelJobByWorkerSave(r) /\ SeenRated
    \/ \E c \in Clients, j \in Known(Lifecycle), rating \in {"missing", "3"} :
            RateWorkerRead(c, j, rating) /\ SeenReview
    \/ \E r \in BagToSet(inflight) : RateWorkerExisting(r) /\ SeenReview
    \/ \E r \in BagToSet(inflight) : RateWorkerSave(r) /\ SeenReview
    \/ \E w \in Workers, j \in Known(Lifecycle), rating \in {"missing", "3"} :
            RateClientRead(w, j, rating) /\ SeenReview
    \/ \E r \in BagToSet(inflight) : RateClientExisting(r) /\ SeenReview
    \/ \E r \in BagToSet(inflight) : RateClientSave(r) /\ SeenReview

SpecAuth == Init /\ [][NextAuth]_vars

\* createJob await by await, with the client's cancelJob and the workers'
\* acceptJob running between its saves.
NextCreate ==
    \/ \E c \in Clients, skill \in SkillForms, title \in BOOLEAN, description \in BOOLEAN,
          address \in AddressForms, file \in BOOLEAN :
            CreateJobFirstSave(JobIds, c, skill, title, description, address, file) /\ SeenRated
    \/ \E r \in BagToSet(inflight), uploaded \in BOOLEAN : CreateJobUpload(r, uploaded) /\ SeenRated
    \/ \E r \in BagToSet(inflight) : CreateJobImageSave(r) /\ SeenRated
    \/ \E r \in BagToSet(inflight) : CreateJobPayment(r) /\ SeenRated
    \/ \E w \in Workers, j \in Known(JobIds) : AcceptJobCheck(w, j) /\ SeenRated
    \/ \E r \in BagToSet(inflight) : AcceptJobClaim(r) /\ SeenRated
    \/ \E r \in BagToSet(inflight) : AcceptJobReread(r) /\ SeenRated
    \/ \E r \in BagToSet(inflight) : AcceptJobFinish(r) /\ SeenRated
    \/ \E c \in Clients, j \in Known(JobIds) : CancelJobRead(c, j) /\ SeenRated
    \/ \E r \in BagToSet(inflight) : CancelJobDelete(r) /\ SeenRated

SpecCreate == Init /\ [][NextCreate]_vars

\* One job from posted to completed, completeJob await by await.
SeenCount ==
    /\ UNCHANGED <<ok200, lastCode, acceptLog, reviews, codeBy, holding>>
    /\ AccountsIdle

NextCount ==
    \/ \E c \in Clients, skill \in Skills \cup {"none"}, title \in BOOLEAN,
          description \in BOOLEAN, address \in Addresses :
            CreateJob(Lifecycle, c, skill, title, description, address) /\ SeenRated
    \/ \E w \in Workers, j \in Known(Lifecycle) : AcceptJobCheck(w, j) /\ SeenRated
    \/ \E r \in BagToSet(inflight) : AcceptJobClaim(r) /\ SeenRated
    \/ \E r \in BagToSet(inflight) : AcceptJobReread(r) /\ SeenRated
    \/ \E r \in BagToSet(inflight) : AcceptJobFinish(r) /\ SeenRated
    \/ \E c \in Clients, j \in Known(Lifecycle) : StartJobRead(c, j) /\ SeenRated
    \/ \E r \in BagToSet(inflight) : StartJobSave(r) /\ SeenRated
    \/ \E w \in Workers, j \in Known(Lifecycle) : GetCompletionOTPRead(w, j) /\ SeenRated
    \/ \E r \in BagToSet(inflight), code \in Codes : GetCompletionOTPSave(r, code) /\ SeenRated
    \/ \E c \in Clients, j \in Known(Lifecycle), otp \in Codes \cup {NoCode} :
            CompleteJobRead(c, j, otp) /\ SeenRated
    \/ \E r \in BagToSet(inflight) : CompleteJobWrite(r) /\ SeenCount
    \/ \E r \in BagToSet(inflight) : CompleteJobFindWorker(r) /\ SeenCount
    \/ \E r \in BagToSet(inflight) : CompleteJobCount(r) /\ SeenCount

SpecCount == Init /\ [][NextCount]_vars

\* One job with every handler of its lifecycle, and the origin of its code.
\* A code is stale when the save that stored it found the job no longer active
\* with the worker who asked for it, or when the job left that worker's active
\* period after the save.
CodeOrigin ==
    codeBy' = [j \in JobIds |->
        IF ret'.op = "otp" /\ ret'.code = 200 /\ ret'.job = j
        THEN [worker |-> ret'.actor,
              stale |-> ~(jobs[j].status = "active" /\ jobs[j].workerId = ret'.actor)]
        ELSE IF jobs'[j].completionOTP = NoCode THEN NoOrigin
        ELSE IF /\ jobs[j].status = "active"
                /\ (jobs'[j].status # "active" \/ jobs'[j].workerId # jobs[j].workerId)
        THEN [codeBy[j] EXCEPT !.stale = TRUE]
        ELSE codeBy[j]]

SeenCode ==
    /\ CodeOrigin
    /\ UNCHANGED <<ok200, lastCode, acceptLog, reviews, completedJobs, holding>>
    /\ AccountsIdle

NextCode ==
    \/ \E c \in Clients, skill \in Skills \cup {"none"}, title \in BOOLEAN,
          description \in BOOLEAN, address \in Addresses :
            CreateJob(Lifecycle, c, skill, title, description, address) /\ SeenCode
    \/ \E w \in Workers, j \in Known(Lifecycle) : AcceptJobCheck(w, j) /\ SeenCode
    \/ \E r \in BagToSet(inflight) : AcceptJobClaim(r) /\ SeenCode
    \/ \E r \in BagToSet(inflight) : AcceptJobReread(r) /\ SeenCode
    \/ \E r \in BagToSet(inflight) : AcceptJobFinish(r) /\ SeenCode
    \/ \E c \in Clients, j \in Known(Lifecycle) : StartJobRead(c, j) /\ SeenCode
    \/ \E r \in BagToSet(inflight) : StartJobSave(r) /\ SeenCode
    \/ \E w \in Workers, j \in Known(Lifecycle) : GetCompletionOTPRead(w, j) /\ SeenCode
    \/ \E r \in BagToSet(inflight), code \in Codes : GetCompletionOTPSave(r, code) /\ SeenCode
    \/ \E c \in Clients, j \in Known(Lifecycle), otp \in Codes \cup {NoCode} :
            CompleteJobRead(c, j, otp) /\ SeenCode
    \/ \E r \in BagToSet(inflight) : CompleteJobSave(r) /\ SeenCode
    \/ \E c \in Clients, j \in Known(Lifecycle) : CancelJobRead(c, j) /\ SeenCode
    \/ \E r \in BagToSet(inflight) : CancelJobDelete(r) /\ SeenCode
    \/ \E w \in Workers, j \in Known(Lifecycle) : CancelJobByWorkerRead(w, j) /\ SeenCode
    \/ \E r \in BagToSet(inflight) : CancelJobByWorkerSave(r) /\ SeenCode

SpecCode == Init /\ [][NextCode]_vars

\* Two jobs, the second one only created and accepted, and what each worker
\* still holds by the responses: a job enters with the worker's claim and
\* leaves with the 200 of completeJob, cancelJob or the worker's
\* cancelJobByWorker, or with the 400 that follows the rollback of the claim.
Holding ==
    holding' = [w \in Workers |->
        LET claimed == {j \in JobIds : jobs[j].workerId # w /\ jobs'[j].workerId = w}
            ended == {j \in JobIds :
                        /\ ret'.job = j
                        /\ \/ ret'.op \in {"complete", "cancel"} /\ ret'.code = 200
                           \/ ret'.op = "cancelWorker" /\ ret'.code = 200 /\ ret'.actor = w
                           \/ ret'.op = "accept" /\ ret'.code = 400 /\ ret'.actor = w
                              /\ jobs' # jobs}
        IN  (holding[w] \cup claimed) \ ended]

SeenHold ==
    /\ Holding
    /\ UNCHANGED <<ok200, lastCode, acceptLog, reviews, completedJobs, codeBy>>
    /\ AccountsIdle

NextHold ==
    \/ \E c \in {"c1"}, skill \in Skills \cup {"none"}, title \in BOOLEAN,
          description \in BOOLEAN, address \in Addresses :
            CreateJob(JobIds, c, skill, title, description, address) /\ SeenHold
    \/ \E w \in Workers, j \in Known(JobIds) : AcceptJobCheck(w, j) /\ SeenHold
    \/ \E r \in BagToSet(inflight) : AcceptJobClaim(r) /\ SeenHold
    \/ \E r \in BagToSet(inflight) : AcceptJobReread(r) /\ SeenHold
    \/ \E r \in BagToSet(inflight) : AcceptJobFinish(r) /\ SeenHold
    \/ \E c \in Clients, j \in Known(Lifecycle) : StartJobRead(c, j) /\ SeenHold
    \/ \E r \in BagToSet(inflight) : StartJobSave(r) /\ SeenHold
    \/ \E w \in Workers, j \in Known(Lifecycle) : GetCompletionOTPRead(w, j) /\ SeenHold
    \/ \E r \in BagToSet(inflight), code \in Codes : GetCompletionOTPSave(r, code) /\ SeenHold
    \/ \E c \in Clients, j \in Known(Lifecycle), otp \in Codes \cup {NoCode} :
            CompleteJobRead(c, j, otp) /\ SeenHold
    \/ \E r \in BagToSet(inflight) : CompleteJobSave(r) /\ SeenHold
    \/ \E c \in Clients, j \in Known(Lifecycle) : CancelJobRead(c, j) /\ SeenHold
    \/ \E r \in BagToSet(inflight) : CancelJobDelete(r) /\ SeenHold
    \/ \E w \in Workers, j \in Known(Lifecycle) : CancelJobByWorkerRead(w, j) /\ SeenHold
    \/ \E r \in BagToSet(inflight) : CancelJobByWorkerSave(r) /\ SeenHold

SpecHold == Init /\ [][NextHold]_vars

\* Registration of one address: register, verifyOTP await by await, and the
\* two TTL indexes.  wrong counts the 'incorrect' answers per OTP document.
CountWrong ==
    wrong' = [i \in OtpIds |->
        IF /\ ret'.op = "verifyOTP" /\ ret'.job = i
           /\ ret'.message = "The OTP you entered is incorrect."
           /\ wrong[i] < MaxWrong
        THEN wrong[i] + 1 ELSE wrong[i]]

SeenVerify == CountWrong /\ JobsIdle /\ UNCHANGED <<contact, strictQuery, issued>>

NextVerify ==
    \/ \E otpCode \in Codes : Register(otpCode) /\ SeenVerify
    \/ \E i \in OtpIds : ExpireOtp(i) /\ SeenVerify
    \/ ExpireUser /\ SeenVerify
    \/ \E code \in Codes \cup {NoCode} : VerifyOTPFind(code) /\ SeenVerify
    \/ \E r \in BagToSet(inflight) : VerifyOTPLockout(r) /\ SeenVerify
    \/ \E r \in BagToSet(inflight) : VerifyOTPAttempt(r) /\ SeenVerify
    \/ \E r \in BagToSet(inflight) : VerifyOTPUser(r) /\ SeenVerify
    \/ \E r \in BagToSet(inflight) : VerifyOTPSaveUser(r) /\ SeenVerify
    \/ \E r \in BagToSet(inflight) : VerifyOTPCleanup(r) /\ SeenVerify

SpecVerify == Init /\ [][NextVerify]_vars

\* The clients' email and phone updates.  issued keeps, per value, the code
\* of the latest send...Otp call that stored its document.
Issued ==
    issued' = [v \in Values |->
        IF ret'.op = "sendOtp" /\ ret'.value = v /\ ret'.otp # NoCode
        THEN ret'.otp ELSE issued[v]]

SeenContact == Issued /\ JobsIdle /\ UNCHANGED wrong

NextContact ==
    \/ \E c \in Clients, v \in Values, recent \in BOOLEAN, b \in Builds :
            SendUpdateOtpRecent(c, v, recent, b) /\ SeenContact
    \/ \E r \in BagToSet(inflight), code \in Codes : SendUpdateOtpExisting(r, code) /\ SeenContact
    \/ \E r \in BagToSet(inflight), b \in Builds : SendUpdateOtpClear(r, b) /\ SeenContact
    \/ \E r \in BagToSet(inflight), sms \in BOOLEAN : SendUpdateOtpSave(r, sms) /\ SeenContact
    \/ \E i \in OtpIds : ExpireOtp(i) /\ UNCHANGED <<contact, strictQuery>> /\ SeenContact
    \/ \E c \in Clients, v \in Values, otp \in Codes \cup {NoCode}, b \in Builds :
            VerifyOtpFind(c, v, otp, b) /\ SeenContact
    \/ \E r \in BagToSet(inflight), b \in Builds : VerifyOtpExpired(r, b) /\ SeenContact
    \/ \E r \in BagToSet(inflight), b \in Builds : VerifyOtpCount(r, b) /\ SeenContact
    \/ \E r \in BagToSet(inflight) : VerifyOtpRecord(r) /\ SeenContact
    \/ \E r \in BagToSet(inflight) : VerifyOtpMark(r) /\ SeenContact
    \/ \E r \in BagToSet(inflight) : VerifyOtpUpdate(r) /\ SeenContact
    \/ \E r \in BagToSet(inflight) : VerifyOtpCleanup(r) /\ SeenContact

SpecContact == Init /\ [][NextContact]_vars

\* ================================================================ claims

\* the jobs a worker holds, read off the collection
HeldBy(w) ==
    {k \in JobIds : jobs[k].state = "stored" /\ jobs[k].workerId = w
                    /\ (jobs[k].status = "assigned" \/ jobs[k].status = "active")}

\* no acceptJob call on job j is between two of its awaits
QuietOn(j) == \A r \in BagToSet(inflight) : ~(r.op = "accept" /\ r.job = j)

AssignedTo(j, w) ==
    jobs[j].state = "stored" /\ jobs[j].status = "assigned" /\ jobs[j].workerId = w

\* C1 as stated: once every worker's acceptJob call on a job has returned,
\* exactly one of the calls got 200, and the job is assigned to that worker.
C1_ExactlyOneAccepted ==
    \A j \in JobIds :
        (acceptLog[j].answered = Workers /\ QuietOn(j))
            => /\ acceptLog[j].n200 = 1
               /\ AssignedTo(j, acceptLog[j].winner)

\* C1 as amended: among acceptJob calls racing for a job, at most one returns
\* 200 and every other one returns 409 or 400; the job is assigned to the worker
\* that got the 200; and exactly one call returns 200 when every worker has
\* called, each has the job's skill and none holds another job.
C1_AtMostOneAccepted ==
    /\ \A j \in JobIds :
        /\ acceptLog[j].n200 <= 1
        /\ acceptLog[j].n200 = 1 => AssignedTo(j, acceptLog[j].winner)
        /\ ( /\ acceptLog[j].answered = Workers
             /\ QuietOn(j)
             /\ \A w \in Workers : jobs[j].skill \in skills(w) /\ HeldBy(w) \subseteq {j} )
           => acceptLog[j].n200 = 1
    /\ (ret.op = "accept" /\ jobs[ret.job].state = "stored")
           => ret.code \in {200, 400, 409}

\* C1's case: two workers raced for a job, one has its 200 and the other its 409
C1_Witness ==
    \E j \in JobIds :
        /\ acceptLog[j].answered = Workers
        /\ acceptLog[j].n200 = 1
        /\ ret.op = "accept" /\ ret.job = j /\ ret.code = 409

\* C7: a worker who holds a job (assigned or active) when the acceptJob call
\* starts gets 400 for any other job, and the call changes no job and leaves
\* nothing in flight.
C7_BusyWorkerRejected ==
    [][\A w \in Workers, j \in JobIds :
          (AcceptJobCheck(w, j) /\ HeldBy(w) \ {j} # {})
              => /\ ret' = Ret("accept", w, j, 400, "You already have an active job")
                 /\ jobs' = jobs
                 /\ inflight' = inflight]_vars

\* C7's case: the refused call was for a job that is posted and unclaimed, and
\* the caller's other job is active
C7_Witness ==
    /\ ret.op = "accept" /\ ret.code = 400
    /\ ret.message = "You already have an active job"
    /\ jobs[ret.job].state = "stored" /\ jobs[ret.job].status = "posted"
    /\ jobs[ret.job].workerId = NoWorker
    /\ \E k \in HeldBy(ret.actor) : k # ret.job /\ jobs[k].status = "active"

\* C8: no worker is the workerId of more than one job that is assigned or active.
C8_SingleActiveJob ==
    \A w \in Workers : Cardinality(HeldBy(w)) <= 1

\* C2: a stored job has a workerId exactly when its status is assigned, active
\* or completed.
C2_WorkerIffClaimed ==
    \A j \in JobIds :
        jobs[j].state = "stored"
            => (jobs[j].workerId # NoWorker
                    <=> jobs[j].status \in {"assigned", "active", "completed"})

\* C3: a stored job has a completionOTP only while its status is active.
C3_OtpOnlyWhileActive ==
    \A j \in JobIds :
        (jobs[j].state = "stored" /\ jobs[j].completionOTP # NoCode)
            => jobs[j].status = "active"

\* C4: a completeJob call answers 200 only for a job that is active, and only
\* with the code the latest getCompletionOTP call returned; a call that reaches
\* an active job with any other code answers 400 and changes no job.
C4_OtpGate ==
    [][/\ (ret'.op = "complete" /\ ret'.code = 200)
            => /\ jobs[ret'.job].state = "stored"
               /\ jobs[ret'.job].status = "active"
               /\ ret'.otp = lastCode[ret'.job]
       /\ ( /\ ret'.op = "complete" /\ inflight' = inflight
            /\ jobs[ret'.job].state = "stored" /\ jobs[ret'.job].clientId = ret'.actor
            /\ jobs[ret'.job].status = "active"
            /\ ret'.otp # lastCode[ret'.job] )
            => (ret'.code = 400 /\ jobs' = jobs)]_vars

\* C5: of the completeJob calls on one job at most one answers 200.
C5_CompletedOnce ==
    \A j \in JobIds : ok200["complete"][j] <= 1

\* The step of an acceptJob call that claimed a job whose skill the worker
\* lacks: it answers 400 and leaves the job posted and unclaimed (mustExist: the
\* job is still in the collection).
C6Step(mustExist) ==
    \A r \in BagToSet(inflight) :
        ( /\ r.op = "accept" /\ r.pc = "skill"
          /\ jobs[r.job].skill \notin skills(r.actor)
          /\ AcceptJobFinish(r) )
            => /\ ret'.op = "accept" /\ ret'.actor = r.actor /\ ret'.code = 400
               /\ mustExist => jobs'[r.job].state = "stored"
               /\ jobs'[r.job].state = "stored"
                    => (jobs'[r.job].status = "posted" /\ jobs'[r.job].workerId = NoWorker)

\* C6 as stated: the call of a worker without the job's skill returns 400, and
\* when it has returned the job has status posted and workerId null.
C6_RolledBackToPosted == [][C6Step(TRUE)]_vars

\* C6 as amended: the call returns 400, and when it has returned the job, unless
\* its client's cancelJob deleted it in the meantime, has status posted and
\* workerId null.
C6_RolledBackUnlessDeleted == [][C6Step(FALSE)]_vars

\* C6's case: the skill mismatch was answered and the job is posted, unclaimed
C6_Witness ==
    /\ ret.op = "accept" /\ ret.code = 400
    /\ ret.message = "You do not have the required skill for this job"
    /\ jobs[ret.job].state = "stored" /\ jobs[ret.job].status = "posted"
    /\ jobs[ret.job].workerId = NoWorker

\* a call answered at its first read: it refuses with one of codes and writes nothing
C9Refused(codes) == ret'.code \in codes /\ jobs' = jobs /\ inflight' = inflight

C9Sees(j, statuses) == jobs[j].state = "stored" /\ jobs[j].status \in statuses

\* Every lifecycle operation that meets a job in a status the transition table
\* does not list for it answers with one of codes and changes no job.
C9Step(codes) ==
    /\ \A r \in BagToSet(inflight) :
        /\ (AcceptJobClaim(r) /\ C9Sees(r.job, {"assigned", "active", "completed"}))
              => (jobs' = jobs /\ ret' = NoRet /\ inflight' = Move(r, "reread"))
        /\ AcceptJobReread(r) => (ret'.code \in codes /\ jobs' = jobs)
    /\ \A c \in Clients, j \in JobIds :
        /\ (StartJobRead(c, j) /\ C9Sees(j, {"posted", "active", "completed"}))
              => C9Refused(codes)
        /\ (CancelJobRead(c, j) /\ C9Sees(j, {"active", "completed"}))
              => C9Refused(codes)
        /\ \A otp \in Codes \cup {NoCode} :
              (CompleteJobRead(c, j, otp) /\ C9Sees(j, {"posted", "assigned", "completed"}))
                  => C9Refused(codes)
    /\ \A w \in Workers, j \in JobIds :
        /\ (GetCompletionOTPRead(w, j) /\ C9Sees(j, {"posted", "assigned", "completed"}))
              => C9Refused(codes)
        /\ (CancelJobByWorkerRead(w, j) /\ C9Sees(j, {"posted", "completed"}))
              => C9Refused(codes)

\* C9 as stated: every unlisted (status, operation) pair is answered 400 or 404
\* and the job is left unchanged.
C9_Refused400or404 == [][C9Step({400, 404})]_vars

\* C9 as amended: every unlisted (status, operation) pair is answered 400, 404
\* or, for acceptJob on a job that has a worker, 409, and the job is left
\* unchanged.
C9_RefusedWithError == [][C9Step({400, 404, 409})]_vars

\* C9's case: acceptJob on a job that is active was answered 409
C9_Witness ==
    /\ ret.op = "accept" /\ ret.code = 409
    /\ jobs[ret.job].state = "stored" /\ jobs[ret.job].status = "active"

\* C10: a cancelJob or cancelJobByWorker call answers 200 only for a job that is
\* in the collection and not completed, and of the cancelJob calls on one job at
\* most one answers 200.
C10_CancelRefused ==
    /\ [][(ret'.op \in {"cancel", "cancelWorker"} /\ ret'.code = 200)
            => (jobs[ret'.job].state = "stored" /\ jobs[ret'.job].status # "completed")]_vars
    /\ [](\A j \in JobIds : ok200["cancel"][j] <= 1)

\* C11: the answer after a conditional update that matched nothing is 404
\* exactly when the job is not in the collection, 409 exactly when it is there
\* with a worker, and 400 'Job is no longer available' exactly when it is there
\* without a worker in a status other than posted.
C11_RereadAnswers ==
    [][\A r \in BagToSet(inflight) :
          AcceptJobReread(r)
              => /\ ret'.code \in {400, 404, 409}
                 /\ ret'.code = 404 <=> ~Stored(r.job)
                 /\ ret'.code = 409 <=> (Stored(r.job) /\ jobs[r.job].workerId # NoWorker)
                 /\ ret'.code = 400 <=> ( /\ Stored(r.job)
                                         /\ jobs[r.job].workerId = NoWorker
                                         /\ jobs[r.job].status # "posted" )]_vars

\* C12: once a job's status is completed, no step changes its status, workerId
\* or completionOTP.
C12_CompletedIsTerminal ==
    [][\A j \in JobIds :
          (Stored(j) /\ jobs[j].status = "completed")
              => /\ jobs'[j].status = "completed"
                 /\ jobs'[j].workerId = jobs[j].workerId
                 /\ jobs'[j].completionOTP = jobs[j].completionOTP]_vars

\* C13: a job leaves the collection only in the delete step of a cancelJob call
\* of its owning client, and only when its status at that step is posted or
\* assigned.
C13_DeletedOnlyUnstarted ==
    [][\A j \in JobIds :
          (Stored(j) /\ jobs'[j].state # "stored")
              => /\ jobs[j].status \in {"posted", "assigned"}
                 /\ \E r \in Pending("cancel", "delete") :
                        r.job = j /\ r.actor = jobs[j].clientId /\ CancelJobDelete(r)]_vars

\* the number of reviews of a job in one direction
ReviewCount(j, reviewType) ==
    BagCardinality([v \in {u \in BagToSet(reviews) :
                              u.jobId = j /\ u.reviewType = reviewType}
                       |-> CopiesIn(v, reviews)])

\* C14: there is at most one review per job and direction.
C14_OneReviewPerDirection ==
    \A j \in JobIds, reviewType \in {"client-to-worker", "worker-to-client"} :
        ReviewCount(j, reviewType) <= 1

\* the step stores a review
C15Stores == reviews' # reviews

\* C15: a rateWorker call stores a review only of a job that is in the
\* collection, owned by the caller and completed; a rateClient call only of a
\* job that is in the collection, has the caller as workerId and is completed;
\* a call that meets any other job answers 400 or 404 and stores nothing; and
\* no step of either changes a job.
C15_ReviewOnlyCompleted ==
    [][/\ \A r \in BagToSet(inflight) :
            /\ (RateWorkerSave(r) /\ C15Stores)
                  => (ownedBy(r.job, r.actor) /\ jobs[r.job].status = "completed")
            /\ (RateClientSave(r) /\ C15Stores)
                  => (assignedTo(r.job, r.actor) /\ jobs[r.job].status = "completed")
            /\ (RateWorkerExisting(r) \/ RateWorkerSave(r)
                    \/ RateClientExisting(r) \/ RateClientSave(r)) => jobs' = jobs
       /\ \A j \in JobIds, rating \in Ratings :
            /\ \A c \in Clients :
                  RateWorkerRead(c, j, rating)
                      => /\ jobs' = jobs /\ reviews' = reviews
                         /\ ~(ownedBy(j, c) /\ jobs[j].status = "completed")
                                => (ret'.code \in {400, 404} /\ inflight' = inflight)
            /\ \A w \in Workers :
                  RateClientRead(w, j, rating)
                      => /\ jobs' = jobs /\ reviews' = reviews
                         /\ ~(assignedTo(j, w) /\ jobs[j].status = "completed")
                                => (ret'.code \in {400, 404} /\ inflight' = inflight)]_vars

\* the rating is an integer from 1 to 5
C16Integer1to5(rating) ==
    isNumber(rating) /\ tenths(rating) % 10 = 0
        /\ tenths(rating) >= 10 /\ tenths(rating) <= 50

\* C16: every stored review has an integer rating from 1 to 5, and a rateWorker
\* or rateClient call with any other rating answers 400 at once.
C16_RatingInteger1to5 ==
    /\ [](\A v \in BagToSet(reviews) : C16Integer1to5(v.rating))
    /\ [][\A j \in JobIds, rating \in Ratings :
            ~C16Integer1to5(rating)
                => /\ \A c \in Clients :
                        RateWorkerRead(c, j, rating)
                            => (ret'.code = 400 /\ inflight' = inflight)
                   /\ \A w \in Workers :
                        RateClientRead(w, j, rating)
                            => (ret'.code = 400 /\ inflight' = inflight)]_vars

\* the handlers of the job lifecycle, by the op of their responses
LifecycleOps == {"accept", "start", "complete", "cancel", "cancelWorker", "otp"}

\* C17: every error response of a lifecycle handler carries a machine-readable
\* code in its body.
C17_ErrorCarriesCode ==
    (ret.op \in LifecycleOps /\ ret.code >= 400) => "code" \in errorBody(ret)

\* the 400s a handler sends before it looks the job up
C18BodyErrors == {"OTP is required to complete the job", "Rating must be between 1 and 5"}

\* the call is answered 403 or 404 (or, with body400, 400 for its body) and
\* changes neither a job nor a review nor goes on
C18Refused(body400) ==
    /\ \/ ret'.code \in {403, 404}
       \/ body400 /\ ret'.code = 400 /\ ret'.message \in C18BodyErrors
    /\ jobs' = jobs /\ reviews' = reviews /\ inflight' = inflight

\* the job is in the collection and c is its client
C18Owns(j, c) == jobs[j].state = "stored" /\ jobs[j].clientId = c

\* the job is in the collection and w is its worker
C18Holds(j, w) == jobs[j].state = "stored" /\ jobs[j].workerId = w

\* Every call of a client who does not own the job, of a worker who is not the
\* job's workerId, and of a caller with the wrong role is refused.
C18Step(body400) ==
    /\ \A j \in Lifecycle :
        /\ \A c \in Clients :
              ~C18Owns(j, c)
                  => /\ StartJobRead(c, j) => C18Refused(body400)
                     /\ CancelJobRead(c, j) => C18Refused(body400)
                     /\ \A otp \in Codes \cup {NoCode} :
                            CompleteJobRead(c, j, otp) => C18Refused(body400)
                     /\ \A rating \in Ratings :
                            RateWorkerRead(c, j, rating) => C18Refused(body400)
        /\ \A w \in Workers :
              ~C18Holds(j, w)
                  => /\ GetCompletionOTPRead(w, j) => C18Refused(body400)
                     /\ CancelJobByWorkerRead(w, j) => C18Refused(body400)
                     /\ \A rating \in Ratings :
                            RateClientRead(w, j, rating) => C18Refused(body400)
    /\ (ret'.op \in RouteOps /\ role(ret'.actor) # routeRole(ret'.op))
          => (ret'.code = 403 /\ jobs' = jobs /\ reviews' = reviews /\ inflight' = inflight)

\* C18 as stated: a caller who is not entitled to the job gets 403 or 404 and
\* the job and the reviews stay as they are; a caller with the wrong role gets
\* 403.
C18_StrangerGets403or404 == [][C18Step(FALSE)]_vars

\* C18 as amended: a caller who is not entitled to the job gets 403 or 404, or
\* 400 when completeJob has no otp or rateWorker or rateClient has a rating
\* outside 1 to 5, and the job and the reviews stay as they are; a caller with
\* the wrong role gets 403.
C18_StrangerRefused == [][C18Step(TRUE)]_vars

\* C18's case: the other client's completeJob with the right code was answered
\* 404 and the job is still active with its code
C18_Witness ==
    /\ ret.op = "complete" /\ ret.code = 404 /\ ret.otp # NoCode
    /\ Stored(ret.job) /\ jobs[ret.job].clientId # ret.actor
    /\ jobs[ret.job].status = "active" /\ jobs[ret.job].completionOTP = ret.otp

\* worker w lacks the skill of job j
C19Lacks(w, j) == jobs[j].skill \notin skills(w)

\* no acceptJob call of worker w on job j is between two of its awaits
C19Returned(w, j) ==
    \A r \in BagToSet(inflight) : ~(r.op = "accept" /\ r.actor = w /\ r.job = j)

\* C19: the acceptJob call of a worker who lacks the job's skill never answers
\* 200, and once it has returned the job is not that worker's; its claim is
\* rolled back to posted and unclaimed; and the call of a worker who has the
\* skill and holds no job, meeting the job posted and unclaimed, claims it,
\* answers 200 and leaves it assigned to that worker.
C19_SkilledWorkerWins ==
    /\ [](\A j \in JobIds : Stored(j) =>
            /\ (ret.op = "accept" /\ ret.job = j /\ C19Lacks(ret.actor, j))
                  => ret.code \in {400, 404, 409}
            /\ \A w \in Workers :
                  (C19Lacks(w, j) /\ C19Returned(w, j)) => jobs[j].workerId # w)
    /\ [][\A r \in BagToSet(inflight) :
            /\ (AcceptJobFinish(r) /\ C19Lacks(r.actor, r.job) /\ Stored(r.job))
                  => /\ jobs'[r.job].status = "posted"
                     /\ jobs'[r.job].workerId = NoWorker
            /\ ( /\ AcceptJobClaim(r)
                 /\ ~C19Lacks(r.actor, r.job)
                 /\ Stored(r.job) /\ jobs[r.job].status = "posted"
                 /\ jobs[r.job].workerId = NoWorker )
                  => AssignedTo(r.job, r.actor)'
            /\ (AcceptJobFinish(r) /\ ~C19Lacks(r.actor, r.job))
                  => /\ ret' = Ret("accept", r.actor, r.job, 200, "Job accepted successfully")
                     /\ AssignedTo(r.job, r.actor)']_vars
    /\ [][\A w \in Workers, j \in JobIds :
            (AcceptJobCheck(w, j) /\ HeldBy(w) = {})
                => (ret' = NoRet /\ inflight' # inflight)]_vars

\* C19's case: B's claim landed first and was rolled back, B has its 400, the
\* job is posted and unclaimed again, and A's call on it is on its way
C19_Witness ==
    /\ ret.op = "accept" /\ ret.code = 400
    /\ ret.message = "You do not have the required skill for this job"
    /\ Stored(ret.job) /\ jobs[ret.job].status = "posted"
    /\ jobs[ret.job].workerId = NoWorker
    /\ \E r \in BagToSet(inflight) :
          /\ r.op = "accept" /\ r.job = ret.job /\ r.pc = "claim"
          /\ ~C19Lacks(r.actor, r.job) /\ HeldBy(r.actor) = {}

\* job j is in the collection, posted, with no worker
C20Free(j) ==
    jobs[j].state = "stored" /\ jobs[j].status = "posted" /\ jobs[j].workerId = NoWorker

\* C20: when cancelJobByWorker answers 200 the job is posted with no worker and
\* no completionOTP; and an acceptJob call of a worker who has the skill and
\* holds no job, meeting the job like that, passes the pre-check, claims the job
\* and answers 200.
C20_ReleasedJobClaimable ==
    /\ [][\A r \in BagToSet(inflight) :
            /\ (CancelJobByWorkerSave(r) /\ ret'.code = 200)
                  => (C20Free(r.job)' /\ jobs'[r.job].completionOTP = NoCode)
            /\ (AcceptJobClaim(r) /\ C20Free(r.job))
                  => (AssignedTo(r.job, r.actor)' /\ inflight' = Move(r, "skill"))
            /\ (AcceptJobFinish(r) /\ jobs[r.job].skill \in skills(r.actor))
                  => ret' = Ret("accept", r.actor, r.job, 200, "Job accepted successfully")]_vars
    /\ [][\A w \in Workers, j \in JobIds :
            (AcceptJobCheck(w, j) /\ HeldBy(w) = {})
                => inflight' = Add(Req("accept", w, j, "claim", NoCode, NoWorker))]_vars

\* C20's case: the worker's cancel of an active job whose code had been
\* generated was answered 200, and the job is posted, unclaimed, without code
C20_Witness ==
    /\ ret.op = "cancelWorker" /\ ret.code = 200
    /\ C20Free(ret.job) /\ jobs[ret.job].completionOTP = NoCode
    /\ lastCode[ret.job] # NoCode /\ ok200["complete"][ret.job] = 0

\* the step adds exactly one job, posted, of client c, with no worker, and
\* leaves the others as they are
C21AddsOne(c) ==
    \E j \in JobIds :
        /\ jobs[j].state = "none" /\ jobs'[j].state = "stored"
        /\ jobs'[j].clientId = c /\ jobs'[j].status = "posted"
        /\ jobs'[j].workerId = NoWorker
        /\ \A k \in JobIds \ {j} : jobs'[k] = jobs[k]

\* C21: a createJob call with title, description, a skill of the list and an
\* address with a city or coordinates stores exactly one job, posted and
\* unclaimed, whatever becomes of the image upload; a call without title,
\* description or skill, or with an address that has neither city nor
\* coordinates, answers 400 and stores none.
C21_CreateValidated ==
    [][/\ \A c \in Clients, skill \in SkillForms, title \in BOOLEAN, description \in BOOLEAN,
             address \in AddressForms, file \in BOOLEAN :
            CreateJobFirstSave(JobIds, c, skill, title, description, address, file)
                => /\ (title /\ description /\ skill \in Skills
                          /\ address \in {"city", "coords"}) => C21AddsOne(c)
                   /\ (~title \/ ~description \/ skill = "none"
                          \/ address \in {"none", "empty", "emptyLocation"})
                        => (ret'.code = 400 /\ jobs' = jobs /\ inflight' = inflight)
       /\ \A r \in BagToSet(inflight) :
            (\E uploaded \in BOOLEAN : CreateJobUpload(r, uploaded))
                \/ CreateJobImageSave(r) \/ CreateJobPayment(r)
                => jobs' = jobs]_vars

\* C22: a write of startJob, completeJob, getCompletionOTP, cancelJobByWorker or
\* cancelJob changes a job only if the job's status and workerId at the write
\* still pass the check the call made when it read the job.
C22_NoLostUpdate ==
    [][\A r \in BagToSet(inflight) :
          LET j == r.job
              changed == jobs'[j] # jobs[j]
          IN  /\ (StartJobSave(r) /\ changed) => jobs[j].status = "assigned"
              /\ (CompleteJobSave(r) /\ changed) => jobs[j].status = "active"
              /\ (\E code \in Codes : GetCompletionOTPSave(r, code)) /\ changed
                    => (jobs[j].status = "active" /\ jobs[j].workerId = r.actor)
              /\ (CancelJobByWorkerSave(r) /\ changed)
                    => (jobs[j].status \in {"assigned", "active"} /\ jobs[j].workerId = r.actor)
              /\ (CancelJobDelete(r) /\ changed)
                    => jobs[j].status \in {"posted", "assigned"}]_vars

\* C23: every review refers to a job that is in the collection and completed.
C23_ReviewedJobStays ==
    \A v \in BagToSet(reviews) :
        jobs[v.jobId].state = "stored" /\ jobs[v.jobId].status = "completed"

\* C24: the step that ends a completeJob call with 200 raises the stored
\* counter of the job's worker by exactly one, and no other step changes a
\* counter.
C24_CounterRaisedOnce ==
    [][/\ \A r \in BagToSet(inflight) :
            (CompleteJobCount(r) /\ ret'.code = 200)
                => completedJobs' = [completedJobs EXCEPT ![r.snapWorker] = @ + 1]
       /\ (completedJobs' # completedJobs)
            => \E r \in BagToSet(inflight) : CompleteJobCount(r)]_vars

\* C26: the rollback of acceptJob changes a job only if the job is still
\* assigned to the worker whose claim is rolled back: it resets no job that
\* was started or completed since, and no job another worker holds by now.
C26_RollbackOnlyOwnClaim ==
    [][\A r \in Pending("accept", "skill") :
          (AcceptJobFinish(r) /\ jobs'[r.job] # jobs[r.job])
              => (jobs[r.job].status = "assigned" /\ jobs[r.job].workerId = r.actor)]_vars

\* C27: completeJob lets a call pass its code check only with a code that the
\* worker now assigned had generated in the job's current active period: not
\* with a code stored by a getCompletionOTP that read the job in an earlier
\* period, nor with one issued to a worker who held the job before.
C27Passes(j) ==
    \E r \in BagToSet(inflight') :
        /\ r.op = "complete" /\ r.pc = "save" /\ r.job = j
        /\ CopiesIn(r, inflight') > CopiesIn(r, inflight)

C27_CodeOfCurrentPeriod ==
    [][\A j \in Lifecycle :
          C27Passes(j) => (codeBy[j].worker = jobs[j].workerId /\ ~codeBy[j].stale)]_vars

\* C28: a startJob, completeJob, getCompletionOTP, cancelJob, cancelJobByWorker,
\* rateWorker or rateClient call that answers 4xx has written nothing: the step
\* that sends the 4xx leaves the jobs, the reviews and the workers' counters as
\* they were, and the only step that writes without answering is acceptJob's
\* claim, so no earlier step of such a call has written either.
C28Ops == {"start", "complete", "otp", "cancel", "cancelWorker", "rateWorker", "rateClient"}
C28Wrote == jobs' # jobs \/ reviews' # reviews \/ completedJobs' # completedJobs

C28_RefusalWritesNothing ==
    [][/\ (ret'.op \in C28Ops /\ ret'.code \in 400 .. 499) => ~C28Wrote
       /\ (C28Wrote /\ ret' = NoRet) => \E r \in Pending("accept", "claim") : AcceptJobClaim(r)]_vars

\* a started job with no code yet, on which completeJob has just refused a code
C28_Witness ==
    /\ ret.op = "complete" /\ ret.code = 400
    /\ ret.message = "No OTP generated for this job"
    /\ jobs[ret.job].status = "active" /\ jobs[ret.job].completionOTP = NoCode


\* C30: a worker is not locked out: when no request is in flight and every job
\* the worker claimed has since been completed, released or deleted, the
\* worker's acceptJob on a posted job whose skill the worker has passes the
\* check for an active job.
C30_NeverLockedOut ==
    [][\A w \in Workers, j \in JobIds :
          ( /\ AcceptJobCheck(w, j)
            /\ inflight = EmptyBag /\ holding[w] = {}
            /\ Stored(j) /\ jobs[j].status = "posted" /\ jobs[j].workerId = NoWorker
            /\ jobs[j].skill \in skills(w) )
              => inflight' = Add(Req("accept", w, j, "claim", NoCode, NoWorker))]_vars


\* C25: verifyOTP lets the correct code pass only while fewer than 3 incorrect
\* codes have been answered on the OTP document, and a call that finds the
\* document after 3 incorrect codes goes to the lockout, which deletes the
\* document and answers 400 while the user stays temporary.
C25Passed(i) ==
    \E r \in BagToSet(inflight') :
        /\ r.op = "verifyOTP" /\ r.pc = "user" /\ r.job = i
        /\ CopiesIn(r, inflight') > CopiesIn(r, inflight)

C25_LockoutAfterThree ==
    [][/\ \A i \in OtpIds : C25Passed(i) => wrong[i] < 3
       /\ \A code \in Codes :
            (VerifyOTPFind(code) /\ findOneOtp(RegEmail) # 0
                /\ wrong[findOneOtp(RegEmail)] >= 3)
              => \E r \in Pending("verifyOTP", "lockout")' : r.otp = code
       /\ \A r \in Pending("verifyOTP", "lockout") :
            VerifyOTPLockout(r)
              => (otps'[r.job].state = "deleted" /\ ret'.code = 400 /\ account' = account)]_vars


\* C29: verifyEmailOtp and verifyPhoneOtp let a code pass, and so change the
\* client's email or phone, only when the code is the one the latest
\* sendUpdateEmailOtp or sendUpdatePhoneOtp issued for the value; a wrong code
\* does not pass, the second time it is submitted either.
C29Passed(v, otp) ==
    \E r \in BagToSet(inflight') :
        /\ r.op = "verifyOtp" /\ r.pc = "mark" /\ r.value = v /\ r.otp = otp
        /\ CopiesIn(r, inflight') > CopiesIn(r, inflight)

C29_OnlyIssuedCodePasses ==
    [][\A v \in Values, otp \in Codes : C29Passed(v, otp) => otp = issued[v]]_vars

====
